---- MODULE Spec2Model ----
(***************************************************************************)
(* Model of src/FlaskApp.py: the in-memory document store `documents` and  *)
(* the request handlers that read and write it.                            *)
(*                                                                         *)
(* A Python dict is modelled as the sequence of its <<key, value>> pairs   *)
(* in insertion order.  A stored document is a dict OBJECT: the store maps *)
(* a key to a reference into `heap`, so that a handler's in-place updates  *)
(* of `document[...]` are seen through every alias of the object.          *)
(* Strings that the code splits or strips are sequences of characters.     *)
(* The prompts (lines 93-104, 133-178, 244-265) only form the argument of  *)
(* the Gemini call, whose answer is not a function of it: they, and        *)
(* translate_to_hindi (which never raises), are not part of the state.     *)
(***************************************************************************)
EXTENDS Naturals, Sequences, FiniteSets, TLC

VARIABLES
    documents,   \* line 33: the store, a dict  key -> reference
    heap,        \* the document dict objects, reference -> record
    uuids,       \* number of uuid.uuid4() values drawn so far
    pc,          \* per request thread: where its handler stands
    req,         \* per thread: the request being (or last) handled
    loc,         \* per thread: the handler's local `document` (0: unbound)
    resp,        \* per thread: the last response sent
    calls,       \* per thread: what generate_with_gemini gave the current/last request
    pre,         \* per thread: the store's contents when the request began
    generated,   \* history: ids returned by generate_document, in order
    deleted      \* history: ids whose DELETE answered success

vars == <<documents, heap, uuids, pc, req, loc, resp, calls, pre, generated, deleted>>

\* ---------------------------------------------------------------- bounds
MaxDocs == 2     \* uuid4() values the model draws; also the ids a URL can name
MaxLen == 4      \* longest raw Gemini answer, in characters

Chars == {"a", "b", " ", "\n"}
Whitespace == {" ", "\n"}
DocIds == 1..MaxDocs

\* ------------------------------------------------------- python builtins
dict_keys(d) == {d[i][1] : i \in 1..Len(d)}

dict_has(d, k) == k \in dict_keys(d)

dict_get(d, k) == d[CHOOSE i \in 1..Len(d) : d[i][1] = k][2]

\* d[k] = v: an existing key keeps its place, a new key is appended
dict_set(d, k, v) ==
    IF dict_has(d, k)
    THEN [i \in 1..Len(d) |-> IF d[i][1] = k THEN <<k, v>> ELSE d[i]]
    ELSE Append(d, <<k, v>>)

IsNotKey(p, k) == p[1] # k

dict_del(d, k) == SelectSeq(d, LAMBDA p : IsNotKey(p, k))

RECURSIVE lstrip(_)
lstrip(s) ==
    IF s = <<>> THEN s
    ELSE IF Head(s) \in Whitespace THEN lstrip(Tail(s)) ELSE s

RECURSIVE rstrip(_)
rstrip(s) ==
    IF s = <<>> THEN s
    ELSE IF s[Len(s)] \in Whitespace THEN rstrip(SubSeq(s, 1, Len(s) - 1)) ELSE s

\* str.strip()
strip(s) == rstrip(lstrip(s))

\* str.split('\n'): always at least one piece
RECURSIVE split(_)
split(s) ==
    IF \A i \in 1..Len(s) : s[i] # "\n" THEN <<s>>
    ELSE LET i == CHOOSE j \in 1..Len(s) :
                      s[j] = "\n" /\ \A m \in 1..(j - 1) : s[m] # "\n"
         IN  <<SubSeq(s, 1, i - 1)>> \o split(SubSeq(s, i + 1, Len(s)))

IsNonEmpty(q) == q # <<>>

\* faulty variant: the `if q.strip()` filter is missing
split_clean_unfiltered(text) ==
    LET pieces == split(strip(text))
    IN  [i \in 1..Len(pieces) |-> strip(pieces[i])]

\* [q.strip() for q in text.strip().split('\n') if q.strip()]  (lines 110, 147)

split_clean(text) ==
    LET pieces == split(strip(text))
    IN  SelectSeq([i \in 1..Len(pieces) |-> strip(pieces[i])], IsNonEmpty)

\* ----------------------------------------------------------- environment
\* What model.generate_content can answer: it raises, or it returns a text.
RawTexts == UNION {[1..n -> Chars] : n \in 0..MaxLen}

\* The store keeps document texts: the answers to a document prompt are
\* two of the raw texts, one of them padded with whitespace.
DocTexts == {<<"a">>, <<"b", "\n">>}

GeminiReplies(kind) ==
    {[raised |-> TRUE, text |-> <<>>]}
        \cup {[raised |-> FALSE, text |-> x] :
                 x \in (IF kind = "questions" THEN RawTexts ELSE DocTexts)}

\* Where the handler never reads the text (lines 146-147), one text stands
\* for all of them.
UnreadReplies ==
    {[raised |-> TRUE, text |-> <<>>], [raised |-> FALSE, text |-> <<"a", "\n", "b">>]}

\* lines 56-71: the exception is re-raised, the text is stripped
generate_with_gemini(reply) ==
    [raised |-> reply.raised,
     text   |-> IF reply.raised THEN <<>> ELSE strip(reply.text)]

\* faulty variant: an id generator that repeats itself
uuid4_constant(n) == 1

\* line 183: uuid.uuid4(), a value never drawn before; n values were drawn
uuid4(n) == n + 1

\* ---------------------------------------------------------- request data
A1 == << <<"q1", "x">> >>
A2 == << <<"q2", "y">> >>
T2 == <<"Renamed">>

\* JSON bodies of POST /generate_questions
QuestionBodies ==
    { [language |-> "English"],
      [doc_type |-> ""],
      [doc_type |-> "Will"],
      [doc_type |-> "NDA", language |-> "Hindi"] }

\* JSON bodies of POST /generate_document
GenerateBodies ==
    { [language |-> "English"],
      [doc_type |-> ""],
      [doc_type |-> "NDA", answers |-> A1] }

\* JSON bodies of PUT /documents/<id>
EditBodies ==
    { [title |-> T2],
      [document_text |-> <<"b">>],
      [answers |-> A2],
      [answers |-> A2, regenerate |-> FALSE, title |-> T2, document_text |-> <<"b">>],
      [answers |-> A2, regenerate |-> TRUE],
      [answers |-> A2, regenerate |-> TRUE, title |-> T2, document_text |-> <<"b">>],
      [regenerate |-> TRUE],
      [id |-> 0, doc_type |-> "Deed", language |-> "Tamil", title |-> T2] }

\* data.get(key, default) / key in data
Has(data, key) == key \in DOMAIN data

Get(data, key, default) == IF Has(data, key) THEN data[key] ELSE default

\* `not doc_type` (lines 89, 129): the key is missing (None) or holds ""
NoDocType(data) == IF Has(data, "doc_type") THEN data.doc_type = "" ELSE TRUE

\* ----------------------------------------------------------------- state
NoReq == [op |-> "none", id |-> 0, data |-> [none |-> TRUE]]
NoResp == [status |-> 0, message |-> "", documents |-> <<>>, questions |-> <<>>]

Error(status, msg) == [status |-> status, message |-> msg, documents |-> <<>>, questions |-> <<>>]

Ok(docs) == [status |-> 200, message |-> "", documents |-> docs, questions |-> <<>>]

Threads == DOMAIN pc

\* the store's contents: key -> the record the key's object holds now
StoreView(docs, h) == [i \in 1..Len(docs) |-> <<docs[i][1], h[docs[i][2]]>>]

\* an object lives while the store or some handler's local refers to it
Collect(docs, h, l) ==
    LET live == {docs[i][2] : i \in 1..Len(docs)} \cup ({l[t] : t \in DOMAIN l} \ {0})
    IN  [r \in (live \cap DOMAIN h) |-> h[r]]

FreshRef(h) ==
    CHOOSE r \in 1..(Cardinality(DOMAIN h) + 1) :
        r \notin DOMAIN h /\ \A m \in 1..(r - 1) : m \in DOMAIN h

InitWith(threads) ==
    /\ documents = <<>>
    /\ heap = <<>>
    /\ uuids = 0
    /\ pc = [t \in threads |-> "idle"]
    /\ req = [t \in threads |-> NoReq]
    /\ loc = [t \in threads |-> 0]
    /\ resp = [t \in threads |-> NoResp]
    /\ calls = [t \in threads |-> <<>>]
    /\ pre = [t \in threads |-> <<>>]
    /\ generated = <<>>
    /\ deleted = {}

\* The history of a handled request (resp, calls, pre, and req once the
\* handler has returned) is kept while a single thread serves the requests;
\* with several threads only `generated` and `deleted` are kept.
Serial == Cardinality(Threads) = 1

\* a request arrives at an idle thread
Begin(t) ==
    /\ pc[t] = "idle"
    /\ pre' = [pre EXCEPT ![t] = IF Serial THEN StoreView(documents, heap) ELSE <<>>]
    /\ calls' = [calls EXCEPT ![t] = <<>>]

\* the handler calls generate_with_gemini, which raises or returns a text
Called(t, out) ==
    calls' = [calls EXCEPT ![t] = IF Serial THEN Append(@, out) ELSE @]

\* the handler of request q goes on to its next step
Goto(t, q, label) ==
    /\ pc' = [pc EXCEPT ![t] = label]
    /\ req' = [req EXCEPT ![t] = q]
    /\ resp' = [resp EXCEPT ![t] = NoResp]

\* the handler of request q returns: the response is sent
Return(t, q, r) ==
    /\ pc' = [pc EXCEPT ![t] = "idle"]
    /\ req' = [req EXCEPT ![t] = IF Serial THEN q ELSE NoReq]
    /\ resp' = [resp EXCEPT ![t] = IF Serial THEN r ELSE NoResp]

Request(op, id, data) == [op |-> op, id |-> id, data |-> data]

NoData == [none |-> TRUE]

\* ---------------------------------------------- POST /generate_questions
\* lines 85-90: validation
generate_questions_begin(t, data) ==
    LET q == Request("generate_questions", 0, data)
    IN  /\ Begin(t)
        /\ IF NoDocType(data)
           THEN Return(t, q, Error(400, "doc_type is required"))
           ELSE Goto(t, q, "gq_gemini")
        /\ UNCHANGED <<documents, heap, uuids, loc, generated, deleted>>

\* lines 107-117: the Gemini call, the split and the response
generate_questions_gemini(t, reply) ==
    /\ pc[t] = "gq_gemini"
    /\ Called(t, generate_with_gemini(reply))
    /\ LET out == generate_with_gemini(reply)
       IN  IF out.raised
           THEN Return(t, req[t], Error(500, "Error generating questions"))
           ELSE Return(t, req[t], [status |-> 200, message |-> "", documents |-> <<>>,
                                   questions |-> split_clean(out.text)])
    /\ UNCHANGED <<documents, heap, uuids, loc, pre, generated, deleted>>

\* ----------------------------------------------- POST /generate_document
\* lines 186-193: the record of a new document
new_document(doc_id, data, text) ==
    [id            |-> doc_id,
     title         |-> Get(data, "title", <<"New", data.doc_type>>),
     document_text |-> text,
     doc_type      |-> data.doc_type,
     language      |-> Get(data, "language", "English"),
     answers       |-> Get(data, "answers", <<>>)]

\* requests that will still draw a uuid
Drawing == {t \in Threads : pc[t] \in {"gd_questions", "gd_document"}}

\* lines 123-130: validation
generate_document_begin(t, data) ==
    LET q == Request("generate_document", 0, data)
    IN  /\ Begin(t)
        /\ IF NoDocType(data) THEN TRUE ELSE uuids + Cardinality(Drawing) < MaxDocs
        /\ IF NoDocType(data)
           THEN Return(t, q, Error(400, "doc_type is required"))
           ELSE Goto(t, q, "gd_questions")
        /\ UNCHANGED <<documents, heap, uuids, loc, generated, deleted>>

\* faulty variant: a failure of the first Gemini call is swallowed
generate_document_questions_ignore(t, reply) ==
    /\ pc[t] = "gd_questions"
    /\ Called(t, [generate_with_gemini(reply) EXCEPT !.text = <<>>])
    /\ Goto(t, req[t], "gd_document")
    /\ UNCHANGED <<documents, heap, uuids, loc, pre, generated, deleted>>

\* lines 146-147: the first Gemini call.  questions_text and questions_list
\* are never read again, so the history keeps the outcome without the text
generate_document_questions(t, reply) ==
    /\ pc[t] = "gd_questions"
    /\ Called(t, [generate_with_gemini(reply) EXCEPT !.text = <<>>])
    /\ IF generate_with_gemini(reply).raised
       THEN Return(t, req[t], Error(500, "Error generating document"))
       ELSE Goto(t, req[t], "gd_document")
    /\ UNCHANGED <<documents, heap, uuids, loc, pre, generated, deleted>>

\* lines 194-196: documents[doc_id] = document, and the response
generate_document_save(t, doc_id, document) ==
    LET ref == FreshRef(heap)
        docs == dict_set(documents, doc_id, ref)
    IN  /\ documents' = docs
        /\ heap' = Collect(docs, [r \in DOMAIN heap \cup {ref} |->
                                      IF r = ref THEN document ELSE heap[r]], loc)
        /\ generated' = Append(generated, document.id)
        /\ Return(t, req[t], Ok(<<document>>))

\* lines 180-201: the second Gemini call, the uuid and the insertion
generate_document_document(t, reply) ==
    /\ pc[t] = "gd_document"
    /\ Called(t, generate_with_gemini(reply))
    /\ LET out == generate_with_gemini(reply)
           doc_id == uuid4(uuids)
       IN  IF out.raised
           THEN /\ Return(t, req[t], Error(500, "Error generating document"))
                /\ UNCHANGED <<documents, heap, uuids, generated>>
           ELSE /\ uuids' = uuids + 1
                /\ generate_document_save(t, doc_id, new_document(doc_id, req[t].data, out.text))
    /\ UNCHANGED <<loc, pre, deleted>>

\* ------------------------------------------------------- GET /documents
\* line 206: list(documents.values())
get_documents(t) ==
    /\ Begin(t)
    /\ Return(t, Request("get_documents", 0, NoData),
              Ok([i \in 1..Len(documents) |-> heap[documents[i][2]]]))
    /\ UNCHANGED <<documents, heap, uuids, loc, generated, deleted>>

\* -------------------------------------------------- GET /documents/<id>
\* lines 211-214: documents.get(document_id)
get_document(t, document_id) ==
    LET q == Request("get_document", document_id, NoData)
    IN  /\ Begin(t)
        /\ IF dict_has(documents, document_id)
           THEN Return(t, q, Ok(<<heap[dict_get(documents, document_id)]>>))
           ELSE Return(t, q, Error(404, "Document not found"))
        /\ UNCHANGED <<documents, heap, uuids, loc, generated, deleted>>

\* ----------------------------------------------- DELETE /documents/<id>
\* lines 281-282: the existence check
delete_document_begin(t, document_id) ==
    LET q == Request("delete_document", document_id, NoData)
    IN  /\ Begin(t)
        /\ IF dict_has(documents, document_id)
           THEN Goto(t, q, "dd_del")
           ELSE Return(t, q, Error(404, "Document not found"))
        /\ UNCHANGED <<documents, heap, uuids, loc, generated, deleted>>

\* lines 284-285: del documents[document_id]; a KeyError is not caught
\* by the handler and becomes the framework's 500
delete_document_del(t) ==
    /\ pc[t] = "dd_del"
    /\ IF dict_has(documents, req[t].id)
       THEN /\ documents' = dict_del(documents, req[t].id)
            /\ heap' = Collect(documents', heap, loc)
            /\ deleted' = deleted \cup {req[t].id}
            /\ Return(t, req[t], [Ok(<<>>) EXCEPT !.message = "Document deleted successfully"])
       ELSE /\ Return(t, req[t], Error(500, "Internal server error"))
            /\ UNCHANGED <<documents, heap, deleted>>
    /\ UNCHANGED <<uuids, loc, calls, pre, generated>>

\* -------------------------------------------------- PUT /documents/<id>
\* line 233: `'answers' in data and data.get('regenerate', False)`
regenerates(data) == IF Has(data, "answers") THEN Get(data, "regenerate", FALSE) ELSE FALSE

\* dict.update
RECURSIVE dict_update(_, _)
dict_update(d, e) ==
    IF e = <<>> THEN d ELSE dict_update(dict_set(d, Head(e)[1], Head(e)[2]), Tail(e))

\* faulty variant: every key of the body is copied into the record
edit_fields_all(document, data) ==
    [k \in DOMAIN document |->
        IF k = "answers" THEN (IF regenerates(data) THEN data.answers ELSE document.answers)
        ELSE IF Has(data, k) THEN data[k] ELSE document[k]]

\* faulty variant: the title is written to document_text
edit_fields_swapped(document, data) ==
    LET d1 == IF Has(data, "document_text")
              THEN [document EXCEPT !.document_text = data.document_text]
              ELSE document
        d2 == IF Has(data, "title") THEN [d1 EXCEPT !.document_text = data.title] ELSE d1
    IN  IF regenerates(data) THEN [d2 EXCEPT !.answers = data.answers] ELSE d2

\* faulty variant: the new answers are merged into the stored ones
edit_fields_merge(document, data) ==
    LET d1 == IF Has(data, "document_text")
              THEN [document EXCEPT !.document_text = data.document_text]
              ELSE document
        d2 == IF Has(data, "title") THEN [d1 EXCEPT !.title = data.title] ELSE d1
    IN  IF regenerates(data)
        THEN [d2 EXCEPT !.answers = dict_update(@, data.answers)]
        ELSE d2

\* faulty variant: answers are stored whether or not regenerate is set
edit_fields_persist(document, data) ==
    LET d1 == IF Has(data, "document_text")
              THEN [document EXCEPT !.document_text = data.document_text]
              ELSE document
        d2 == IF Has(data, "title") THEN [d1 EXCEPT !.title = data.title] ELSE d1
    IN  IF Has(data, "answers") THEN [d2 EXCEPT !.answers = data.answers] ELSE d2

\* faulty variant: the answers are not stored before the Gemini call
edit_fields_late(document, data) ==
    LET d1 == IF Has(data, "document_text")
              THEN [document EXCEPT !.document_text = data.document_text]
              ELSE document
    IN  IF Has(data, "title") THEN [d1 EXCEPT !.title = data.title] ELSE d1

\* lines 227-234: the fields the handler writes before the Gemini call
edit_fields(document, data) ==
    LET d1 == IF Has(data, "document_text")
              THEN [document EXCEPT !.document_text = data.document_text]
              ELSE document
        d2 == IF Has(data, "title") THEN [d1 EXCEPT !.title = data.title] ELSE d1
    IN  IF regenerates(data) THEN [d2 EXCEPT !.answers = data.answers] ELSE d2

\* line 268: document['document_text'] = document_text
edit_regenerated(document, text) == [document EXCEPT !.document_text = text]

\* lines 220-221: the existence check
edit_document_begin(t, document_id, data) ==
    LET q == Request("edit_document", document_id, data)
    IN  /\ Begin(t)
        /\ IF dict_has(documents, document_id)
           THEN Goto(t, q, "ed_update")
           ELSE Return(t, q, Error(404, "Document not found"))
        /\ UNCHANGED <<documents, heap, uuids, loc, generated, deleted>>

\* lines 223-234: document = documents[document_id] (a KeyError is caught
\* at line 273) and the updates of the object, in place
edit_document_update(t) ==
    /\ pc[t] = "ed_update"
    /\ IF dict_has(documents, req[t].id)
       THEN LET ref == dict_get(documents, req[t].id)
            IN  /\ loc' = [loc EXCEPT ![t] = ref]
                /\ heap' = [heap EXCEPT ![ref] = edit_fields(@, req[t].data)]
                /\ Goto(t, req[t], IF regenerates(req[t].data) THEN "ed_gemini" ELSE "ed_store")
       ELSE /\ Return(t, req[t], Error(500, "Error updating document"))
            /\ UNCHANGED <<heap, loc>>
    /\ UNCHANGED <<documents, uuids, calls, pre, generated, deleted>>

\* lines 267-268 and 273-276: the Gemini call
edit_document_gemini(t, reply) ==
    /\ pc[t] = "ed_gemini"
    /\ Called(t, generate_with_gemini(reply))
    /\ LET out == generate_with_gemini(reply)
       IN  IF out.raised
           THEN /\ Return(t, req[t], Error(500, "Error updating document"))
                /\ loc' = [loc EXCEPT ![t] = 0]
                /\ heap' = Collect(documents, heap, loc')
           ELSE /\ Goto(t, req[t], "ed_store")
                /\ heap' = [heap EXCEPT ![loc[t]] = edit_regenerated(@, out.text)]
                /\ UNCHANGED loc
    /\ UNCHANGED <<documents, uuids, pre, generated, deleted>>

\* lines 270-271: documents[document_id] = document, and the response
edit_document_store(t) ==
    /\ pc[t] = "ed_store"
    /\ documents' = dict_set(documents, req[t].id, loc[t])
    /\ loc' = [loc EXCEPT ![t] = 0]
    /\ heap' = Collect(documents', heap, loc')
    /\ Return(t, req[t], Ok(<<heap[loc[t]]>>))
    /\ UNCHANGED <<uuids, calls, pre, generated, deleted>>

\* ------------------------------------------------------- specifications
GenerateDocumentBegin == \E t \in Threads, data \in GenerateBodies : generate_document_begin(t, data)

GenerateDocumentQuestions ==
    \E t \in Threads, reply \in UnreadReplies : generate_document_questions(t, reply)

GenerateDocumentDocument ==
    \E t \in Threads, reply \in GeminiReplies("document") : generate_document_document(t, reply)

GetDocuments == \E t \in Threads : get_documents(t)

GetDocument == \E t \in Threads, id \in DocIds : get_document(t, id)

EditDocumentBegin ==
    \E t \in Threads, id \in DocIds, data \in EditBodies : edit_document_begin(t, id, data)

EditDocumentUpdate == \E t \in Threads : edit_document_update(t)

EditDocumentGemini ==
    \E t \in Threads, reply \in GeminiReplies("document") : edit_document_gemini(t, reply)

EditDocumentStore == \E t \in Threads : edit_document_store(t)

DeleteDocumentBegin == \E t \in Threads, id \in DocIds : delete_document_begin(t, id)

DeleteDocumentDel == \E t \in Threads : delete_document_del(t)

Next ==
    \/ GenerateDocumentBegin
    \/ GenerateDocumentQuestions
    \/ GenerateDocumentDocument
    \/ GetDocuments
    \/ GetDocument
    \/ EditDocumentBegin
    \/ EditDocumentUpdate
    \/ EditDocumentGemini
    \/ EditDocumentStore
    \/ DeleteDocumentBegin
    \/ DeleteDocumentDel

\* requests handled one at a time: a single request thread
Init == InitWith({1})

Spec == Init /\ [][Next]_vars

\* the threaded server: two requests can be in flight
InitThreaded == InitWith({1, 2})

SpecThreaded == InitThreaded /\ [][Next]_vars

\* the question endpoint alone (it neither reads nor writes the store)
GenerateQuestionsBegin ==
    \E t \in Threads, data \in QuestionBodies : generate_questions_begin(t, data)

GenerateQuestionsGemini ==
    \E t \in Threads, reply \in GeminiReplies("questions") : generate_questions_gemini(t, reply)

NextQuestions ==
    \/ GenerateQuestionsBegin
    \/ GenerateQuestionsGemini

SpecQuestions == Init /\ [][NextQuestions]_vars

\* ------------------------------------------------------------ properties
\* thread t has answered a request `op` and is idle again
Finished(t, op) == pc[t] = "idle" /\ req[t].op = op /\ resp[t].status # 0

\* the store's contents now
NowView == StoreView(documents, heap)

\* the record of the request's id when the request began, and now
Old(t) == dict_get(pre[t], req[t].id)

New(t) == dict_get(NowView, req[t].id)

\* an edit of a document that existed when the request began
EditOfExisting(t) == Finished(t, "edit_document") /\ dict_has(pre[t], req[t].id)

\* every record but the one the request names is as it was, in its place
OthersUnchanged(t) ==
    /\ Len(NowView) = Len(pre[t])
    /\ \A i \in 1..Len(NowView) :
           /\ NowView[i][1] = pre[t][i][1]
           /\ NowView[i][1] # req[t].id => NowView[i] = pre[t][i]

\* C1: once DELETE /documents/<id> has answered success, the store never
\* again holds id, whatever requests are in flight.
DeletedStaysDeleted == \A id \in deleted : ~dict_has(documents, id)

\* C2: with one request at a time, a GET of an id whose DELETE succeeded
\* answers 404 "Document not found", and no deleted id is in the store.
GetAfterDeleteNotFound ==
    /\ \A id \in deleted : ~dict_has(documents, id)
    /\ \A t \in Threads :
           Finished(t, "get_document") /\ req[t].id \in deleted =>
               /\ resp[t].status = 404
               /\ resp[t].message = "Document not found"
               /\ resp[t].documents = <<>>

\* a GET of a deleted id, after a later document was generated
GetAfterDeleteWitness ==
    \E t \in Threads :
        /\ Finished(t, "get_document")
        /\ req[t].id \in deleted
        /\ Len(generated) = 2
        /\ dict_has(documents, generated[2])

\* C3: the ids generate_document returns are pairwise different, deleted
\* ones included; every record is stored under its own id; and the record
\* returned is the record stored under the id returned.
UniqueIds ==
    /\ \A i, j \in 1..Len(generated) : i # j => generated[i] # generated[j]
    /\ \A i \in 1..Len(NowView) : NowView[i][2].id = NowView[i][1]
    /\ \A t \in Threads :
           Finished(t, "generate_document") /\ resp[t].status = 200 =>
               /\ Len(resp[t].documents) = 1
               /\ resp[t].documents[1].id = generated[Len(generated)]
               /\ dict_has(NowView, resp[t].documents[1].id)
               /\ dict_get(NowView, resp[t].documents[1].id) = resp[t].documents[1]

\* a second document generated after the first was deleted
UniqueIdsWitness ==
    \E t \in Threads :
        /\ Finished(t, "generate_document")
        /\ resp[t].status = 200
        /\ Len(generated) = 2
        /\ generated[1] \in deleted

\* a step leaves the id, doc_type and language of every record that the
\* store holds before and after it
ImmutableStep ==
    \A k \in dict_keys(documents) \cap dict_keys(documents') :
        LET old == heap[dict_get(documents, k)]
            new == heap'[dict_get(documents', k)]
        IN  /\ new.id = old.id
            /\ new.doc_type = old.doc_type
            /\ new.language = old.language

\* C4: no step of any handler changes the id, doc_type or language of a
\* stored record: they keep the values generate_document gave them for as
\* long as the record is stored.
ImmutableFields == [][ImmutableStep]_vars

\* an edit whose body names id, doc_type and language has answered 200
ImmutableFieldsWitness ==
    \E t \in Threads :
        /\ EditOfExisting(t)
        /\ resp[t].status = 200
        /\ Has(req[t].data, "doc_type")
        /\ New(t).doc_type # req[t].data.doc_type
        /\ New(t).language # req[t].data.language
        /\ New(t).id # req[t].data.id

\* C5: an edit whose body holds only `title` sets the title, leaves
\* document_text and answers, makes no Gemini call and changes no other
\* record.
TitleOnlyEdit ==
    \A t \in Threads :
        EditOfExisting(t) /\ DOMAIN req[t].data = {"title"} =>
            /\ resp[t].status = 200
            /\ dict_has(NowView, req[t].id)
            /\ New(t) = [Old(t) EXCEPT !.title = req[t].data.title]
            /\ New(t).document_text = Old(t).document_text
            /\ New(t).answers = Old(t).answers
            /\ resp[t].documents = <<New(t)>>
            /\ calls[t] = <<>>
            /\ OthersUnchanged(t)

\* a title-only edit that changed the title, with another record stored
TitleOnlyEditWitness ==
    \E t \in Threads :
        /\ EditOfExisting(t)
        /\ DOMAIN req[t].data = {"title"}
        /\ New(t).title # Old(t).title
        /\ Len(NowView) = 2

\* an edit with answers and a true regenerate, of an existing document
RegenerateEdit(t) == EditOfExisting(t) /\ regenerates(req[t].data)

\* the fields of the body that are written verbatim, else the old ones
PatchedTitle(t) == IF Has(req[t].data, "title") THEN req[t].data.title ELSE Old(t).title

PatchedText(t) ==
    IF Has(req[t].data, "document_text") THEN req[t].data.document_text
    ELSE Old(t).document_text

\* C6 as stated: a regenerating edit that answers 200 has changed
\* document_text and stored the body's answers.
RegenerateAlwaysChangesText ==
    \A t \in Threads :
        RegenerateEdit(t) /\ resp[t].status = 200 =>
            /\ New(t).document_text # Old(t).document_text
            /\ New(t).answers = req[t].data.answers

\* C6 amended: a regenerating edit that answers 200 made exactly one Gemini
\* call, document_text is that call's text (not the body's document_text;
\* it may equal the old text), and the answers are the body's, wholesale.
RegenerateTakesGeneratedText ==
    \A t \in Threads :
        RegenerateEdit(t) =>
            /\ Len(calls[t]) = 1
            /\ resp[t].status = (IF calls[t][1].raised THEN 500 ELSE 200)
            /\ resp[t].status = 200 =>
                   /\ New(t).document_text = calls[t][1].text
                   /\ New(t).answers = req[t].data.answers
                   /\ New(t).title = PatchedTitle(t)
                   /\ resp[t].documents = <<New(t)>>
                   /\ OthersUnchanged(t)

\* a regenerating edit whose body also held a document_text, which the
\* generated text overrode, and whose answers replaced other answers
RegenerateWitness ==
    \E t \in Threads :
        /\ RegenerateEdit(t)
        /\ resp[t].status = 200
        /\ Has(req[t].data, "document_text")
        /\ New(t).document_text # req[t].data.document_text
        /\ New(t).document_text # Old(t).document_text
        /\ Old(t).answers = A1

\* C7: generate_document answers 400 without a Gemini call when doc_type
\* is missing or empty; a raising Gemini call is the request's last call
\* and gives 500; the store changes only with the 200, by the one record
\* returned; before the handler returns the store is as it found it.
GenerateInsertsOnlyOnSuccess ==
    \A t \in Threads :
        /\ pc[t] \in {"gd_questions", "gd_document"} => NowView = pre[t]
        /\ Finished(t, "generate_document") =>
               /\ NoDocType(req[t].data) =>
                      resp[t].status = 400 /\ calls[t] = <<>> /\ NowView = pre[t]
               /\ Len(calls[t]) <= 2
               /\ \A i \in 1..Len(calls[t]) :
                      calls[t][i].raised => i = Len(calls[t]) /\ resp[t].status = 500
               /\ resp[t].status \in {200, 400, 500}
               /\ resp[t].status = 500 => Len(calls[t]) >= 1 /\ calls[t][Len(calls[t])].raised
               /\ resp[t].status # 200 => NowView = pre[t]
               /\ resp[t].status = 200 =>
                      /\ Len(calls[t]) = 2
                      /\ Len(resp[t].documents) = 1
                      /\ NowView = Append(pre[t], <<resp[t].documents[1].id, resp[t].documents[1]>>)

\* the second Gemini call failed, with a document already in the store
GenerateFailureWitness ==
    \E t \in Threads :
        /\ Finished(t, "generate_document")
        /\ resp[t].status = 500
        /\ Len(calls[t]) = 2
        /\ documents # <<>>

\* the lines of a text, said by positions: the line of a character is the
\* number of newlines before it
NewlinesBefore(s, j) == Cardinality({m \in 1..(j - 1) : s[m] = "\n"})

LineCount(s) == NewlinesBefore(s, Len(s) + 1) + 1

Least(S) == CHOOSE x \in S : \A y \in S : x <= y

Greatest(S) == CHOOSE x \in S : \A y \in S : y <= x

\* the i-th line between its first and last non-whitespace characters
LineCore(s, i) ==
    LET idx == {j \in 1..Len(s) : NewlinesBefore(s, j) = i - 1 /\ s[j] \notin Whitespace}
    IN  IF idx = {} THEN <<>> ELSE SubSeq(s, Least(idx), Greatest(idx))

NonBlankLines(s) == {i \in 1..LineCount(s) : LineCore(s, i) # <<>>}

KthNonBlankLine(s, k) ==
    CHOOSE i \in NonBlankLines(s) : Cardinality({m \in NonBlankLines(s) : m < i}) = k - 1

Trimmed(q) == q # <<>> /\ q[1] \notin Whitespace /\ q[Len(q)] \notin Whitespace

\* C8 as stated: generate_questions, when Gemini returns a text, answers
\* a non-empty list of trimmed non-empty strings.
QuestionsNeverEmpty ==
    \A t \in Threads :
        Finished(t, "generate_questions") /\ resp[t].status = 200 =>
            /\ Len(resp[t].questions) >= 1
            /\ \A k \in 1..Len(resp[t].questions) : Trimmed(resp[t].questions[k])

\* C8 amended: the list holds, in order, the trimmed non-blank lines of the
\* text; each is non-empty and trimmed; the list is non-empty whenever the
\* text has a non-whitespace character (and empty otherwise).
QuestionsAreTrimmedLines ==
    \A t \in Threads :
        Finished(t, "generate_questions") /\ ~NoDocType(req[t].data) =>
            /\ Len(calls[t]) = 1
            /\ resp[t].status = (IF calls[t][1].raised THEN 500 ELSE 200)
            /\ resp[t].status = 200 =>
                   LET text == calls[t][1].text
                       qs == resp[t].questions
                   IN  /\ Len(qs) = Cardinality(NonBlankLines(text))
                       /\ \A k \in 1..Len(qs) :
                              /\ qs[k] = LineCore(text, KthNonBlankLine(text, k))
                              /\ Trimmed(qs[k])
                       /\ (\E j \in 1..Len(text) : text[j] \notin Whitespace) => Len(qs) >= 1

\* two different questions from a text with a blank line between them
QuestionsWitness ==
    \E t \in Threads :
        /\ Finished(t, "generate_questions")
        /\ resp[t].status = 200
        /\ calls[t][1].text = <<"a", "\n", "\n", "b">>
        /\ resp[t].questions = << <<"a">>, <<"b">> >>

\* C9: an edit with answers but without a true regenerate leaves the
\* stored answers, makes no Gemini call, and writes document_text and
\* title only when the body holds them.
AnswersWithoutRegenerate ==
    \A t \in Threads :
        (/\ EditOfExisting(t)
         /\ Has(req[t].data, "answers")
         /\ ~Get(req[t].data, "regenerate", FALSE)) =>
            /\ resp[t].status = 200
            /\ calls[t] = <<>>
            /\ dict_has(NowView, req[t].id)
            /\ New(t).answers = Old(t).answers
            /\ New(t) = [Old(t) EXCEPT !.title = PatchedTitle(t),
                                       !.document_text = PatchedText(t)]
            /\ resp[t].documents = <<New(t)>>
            /\ OthersUnchanged(t)

\* such an edit, with answers unlike the stored ones and a new title
AnswersWithoutRegenerateWitness ==
    \E t \in Threads :
        /\ EditOfExisting(t)
        /\ Has(req[t].data, "answers")
        /\ Has(req[t].data, "regenerate")
        /\ ~req[t].data.regenerate
        /\ req[t].data.answers # Old(t).answers
        /\ New(t).title # Old(t).title

\* a regenerating edit whose Gemini call raised
FailedRegenerate(t) ==
    RegenerateEdit(t) /\ Len(calls[t]) = 1 /\ calls[t][1].raised

====
